---- MODULE Spec2Model ----
(***************************************************************************)
(* Model of the OpenAPI validation / reference-resolution pipelines of     *)
(* OFB-CI-CD.                                                              *)
(*                                                                         *)
(*   full pipeline         src/unnamed/part_000   (validate, then resolve) *)
(*   resolve-only pipeline src/rules/validator.go (resolve only)           *)
(*                                                                         *)
(* The external collaborators (file system, YAML parser, libopenapi index  *)
(* and rolodex) are modelled by the values they hand back to the program:  *)
(* each call draws its result from a bounded set.                          *)
(***************************************************************************)
EXTENDS Integers, Sequences, FiniteSets, TLC

VARIABLES
    pipeline,   \* which main() runs: "full" or "resolve"
    nargs,      \* len(os.Args)
    pc,         \* position of main(): the stage about to run, or a terminal state
    fs,         \* the input files: kind of each document, content of the rule file
    frame,      \* locals of the last validateOpenAPIWithRules call
    rolodex,    \* per document: what the rolodex reported in the last resolveOpenAPI call
    trace,      \* stages executed so far, with the error each returned
    stdout,     \* lines printed so far
    written,    \* output files written so far, in order
    exitCode    \* process exit code (NotExited until the process ends)

vars == <<pipeline, nargs, pc, fs, frame, rolodex, trace, stdout, written, exitCode>>

-----------------------------------------------------------------------------
(* Bounds of the model *)

MaxRules == 2         \* rules in a generated rule file
MaxURLs == 2          \* server URLs the index reports
MaxStructural == 1    \* validation errors the index reports

(* Program constants *)

NArgsFull == 4        \* len(os.Args) < 4 prints the usage line (full pipeline)
NArgsResolve == 3     \* len(os.Args) < 3 prints the usage line (resolve-only)

-----------------------------------------------------------------------------
(* Values *)

Nil == "nil"                \* the nil error
Missing == "\\missing"      \* a key absent from a YAML mapping (nil interface)
Unread == "\\unread"        \* a file the run has not looked at yet
NoFrame == [active |-> FALSE]
NotExited == 0 - 1          \* the process has not ended yet

Pipelines == {"full", "resolve"}
DocNames == {"old", "new"}

\* What reading a document file can yield.
FileKinds == {"ioerr", "encerr", "yamlerr", "ok"}

\* Error messages (fmt.Errorf texts, without the wrapped detail).
ErrReadFile == "erro ao ler o arquivo"
ErrEncoding == "erro ao converter encoding para UTF-8"
ErrUnmarshal == "erro ao fazer unmarshal do YAML"
ErrReadRules == "erro ao ler regras YAML"
ErrUnmarshalRules == "erro ao fazer unmarshal das regras"
ErrValidation == "falha na validacao do OpenAPI"
ErrIndex == "erro ao indexar as referencias"
ErrMarshal == "erro ao converter para YAML"
ErrWrite == "erro ao salvar arquivo resolvido"
Panic == "panic: interface conversion"

OutOld == "oldSwaggerResolve.yaml"
OutNew == "swaggerResolve.yaml"

\* Strings the code inspects byte by byte are sequences of characters.
HttpsPrefix == <<"h", "t", "t", "p", "s", ":", "/", "/">>
UrlHttps == <<"h", "t", "t", "p", "s", ":", "/", "/", "a">>
UrlHttp == <<"h", "t", "t", "p", ":", "/", "/", "a">>
UrlRelative == <<"/", "v", "1">>
URLSamples == {UrlHttps, UrlHttp, UrlRelative}

GivenSecurity == "$.components.securitySchemes"
GivenContact == "$.info.contact"
GivenServers == "$.servers[*].url"
GivenUnknown == "$.unknown.path"

SeqsUpTo(S, n) == UNION {[1..k -> S] : k \in 0..n}

\* Facts the index exposes for a parsed document.
IndexFacts ==
    [structural : 0..MaxStructural,
     sec : BOOLEAN,
     contact : BOOLEAN,
     urls : SeqsUpTo(URLSamples, MaxURLs)]

\* Rule objects found under `rules`.
RuleSecurity == [given |-> GivenSecurity, severity |-> "error", description |-> "security schemes required"]
RuleContact == [given |-> GivenContact, severity |-> "warning", description |-> "contact required"]
RuleServers == [given |-> GivenServers, severity |-> "info", description |-> "https required"]
RuleUnknown == [given |-> GivenUnknown, severity |-> "hint", description |-> "unknown"]
RuleNoSeverity == [given |-> GivenContact, severity |-> Missing, description |-> "contact required"]
RuleNoGiven == [given |-> Missing, severity |-> "error", description |-> "no selector"]
RuleBodies == {RuleSecurity, RuleContact, RuleServers, RuleUnknown, RuleNoSeverity, RuleNoGiven}

\* The rule file with the three built-in rules, in file order.
BuiltinRules == <<RuleSecurity, RuleContact, RuleServers>>

\* Contents of a rule file.  A rule's name is its position in the file.
RuleFiles ==
    {[kind |-> "ioerr", hasRules |-> FALSE, rules |-> <<>>],
     [kind |-> "yamlerr", hasRules |-> FALSE, rules |-> <<>>],
     [kind |-> "parsed", hasRules |-> FALSE, rules |-> <<>>],
     [kind |-> "parsed", hasRules |-> TRUE, rules |-> BuiltinRules]}
    \cup {[kind |-> "parsed", hasRules |-> TRUE, rules |-> s] : s \in SeqsUpTo(RuleBodies, MaxRules)}

\* The orders in which a Go map with keys 1..n can be iterated.
Orders(n) == {o \in [1..n -> 1..n] : \A i, j \in 1..n : i # j => o[i] # o[j]}

-----------------------------------------------------------------------------
(* Shared helpers: convertToUTF8, readFile *)

\* bytes.HasPrefix
HasPrefix(s, prefix) ==
    /\ Len(prefix) <= Len(s)
    /\ SubSeq(s, 1, Len(prefix)) = prefix

\* convertToUTF8: strips a byte-order mark and transcodes; fails when the
\* transforming reader reports an error.
convertToUTF8(kind) ==
    IF kind = "encerr" THEN [data |-> "none", err |-> ErrEncoding]
    ELSE [data |-> IF kind = "yamlerr" THEN "malformed" ELSE "yaml", err |-> Nil]

\* readFile: ioutil.ReadFile, then convertToUTF8.
readFile(kind) ==
    IF kind = "ioerr" THEN [data |-> "none", err |-> ErrReadFile]
    ELSE convertToUTF8(kind)

\* yaml.Unmarshal(data, &rootNode)
unmarshalDoc(data) == IF data = "yaml" THEN Nil ELSE ErrUnmarshal

Line(kind, doc, reason) ==
    [kind |-> kind, doc |-> doc, reason |-> reason, severity |-> "", description |-> ""]

-----------------------------------------------------------------------------
(* Rule engine: loadRules, validateOpenAPIWithRules *)

\* loadRules: ioutil.ReadFile + yaml.Unmarshal into map[string]interface{}.
\* Nothing about the rules themselves is checked here.
loadRules(file) ==
    IF file.kind = "ioerr" THEN [ok |-> FALSE, hasRules |-> FALSE, rules |-> <<>>, err |-> ErrReadRules]
    ELSE IF file.kind = "yamlerr" THEN [ok |-> FALSE, hasRules |-> FALSE, rules |-> <<>>, err |-> ErrUnmarshalRules]
    ELSE [ok |-> TRUE, hasRules |-> file.hasRules, rules |-> file.rules, err |-> Nil]

\* A finding: the Go error value "[severity] description".  `src`, `rule` and
\* `pos` record where it came from (the error value itself has no such fields).
IndexerFinding(i) ==
    [src |-> "indexer", rule |-> 0, pos |-> i, severity |-> "", description |-> "structural"]
RuleFinding(name, body, pos) ==
    [src |-> "rule", rule |-> name, pos |-> pos, severity |-> body.severity, description |-> body.description]

\* idx.GetValidationErrors()
GetValidationErrors(facts) == [i \in 1..facts.structural |-> IndexerFinding(i)]

\* Variant of ServerLoop: walks the server list from its end.
RECURSIVE ServerLoopReversed(_, _, _, _, _)
ServerLoopReversed(urls, i, name, body, acc) ==
    IF i > Len(urls) THEN acc
    ELSE ServerLoopReversed(urls, i + 1, name, body,
                            IF ~HasPrefix(urls[Len(urls) + 1 - i], HttpsPrefix)
                            THEN Append(acc, RuleFinding(name, body, Len(urls) + 1 - i))
                            ELSE acc)

\* Variant of ServerLoop: stops at the first offending URL (one finding per rule).
ServerLoopFirstOnly(urls, i, name, body, acc) ==
    LET bad == {k \in 1..Len(urls) : ~HasPrefix(urls[k], HttpsPrefix)}
    IN  IF bad = {} THEN acc
        ELSE Append(acc, RuleFinding(name, body, CHOOSE k \in bad : \A m \in bad : k <= m))

\* The loop over idx.GetAllServerURLs(): one finding per URL lacking the prefix.
RECURSIVE ServerLoop(_, _, _, _, _)
ServerLoop(urls, i, name, body, acc) ==
    IF i > Len(urls) THEN acc
    ELSE ServerLoop(urls, i + 1, name, body,
                    IF ~HasPrefix(urls[i], HttpsPrefix)
                    THEN Append(acc, RuleFinding(name, body, i))
                    ELSE acc)

\* The three manual checks of one rule (the three `if given == ...`).
CheckRule(facts, name, body, findings) ==
    LET f1 == IF body.given = GivenSecurity /\ ~facts.sec
              THEN Append(findings, RuleFinding(name, body, 0)) ELSE findings
        f2 == IF body.given = GivenContact /\ ~facts.contact
              THEN Append(f1, RuleFinding(name, body, 0)) ELSE f1
    IN  IF body.given = GivenServers
        THEN ServerLoop(facts.urls, 1, name, body, f2)
        ELSE f2

\* One iteration of `for ruleName, rule := range rulesMap`.  The unchecked
\* type assertions .(string) panic on an absent key.
ApplyRule(facts, name, body, st) ==
    IF body.given = Missing \/ body.severity = Missing
    THEN [st EXCEPT !.panicked = TRUE]
    ELSE [st EXCEPT !.findings = CheckRule(facts, name, body, st.findings),
                    !.evaluated = Append(st.evaluated, name)]

\* The range loop, in iteration order `order`; a panic ends it.
RECURSIVE RuleLoop(_, _, _, _, _)
RuleLoop(facts, rules, order, i, st) ==
    IF i > Len(order) \/ st.panicked THEN st
    ELSE RuleLoop(facts, rules, order, i + 1, ApplyRule(facts, order[i], rules[order[i]], st))

\* Variant of Report: only findings of severity error (and the indexer's) fail.
ReportErrorsOnly(doc, findings) ==
    IF \E i \in 1..Len(findings) : findings[i].severity \in {"error", ""}
    THEN [err |-> ErrValidation,
          out |-> [i \in 1..Len(findings) |->
                     [kind |-> "finding", doc |-> doc, reason |-> Nil,
                      severity |-> findings[i].severity,
                      description |-> findings[i].description]]]
    ELSE [err |-> Nil, out |-> <<Line("valid", doc, Nil)>>]

\* The tail of validateOpenAPIWithRules: print the findings and decide.
Report(doc, findings) ==
    IF Len(findings) > 0
    THEN [err |-> ErrValidation,
          out |-> [i \in 1..Len(findings) |->
                     [kind |-> "finding", doc |-> doc, reason |-> Nil,
                      severity |-> findings[i].severity,
                      description |-> findings[i].description]]]
    ELSE [err |-> Nil, out |-> <<Line("valid", doc, Nil)>>]

\* validateOpenAPIWithRules(filePath, rulesFile).  `reached` is how far the
\* call got: "read", "parse", "rules" (loadRules failed), "loop" (panicked in
\* the loop) or "report".
FrameOf(doc, facts, file, order, reached, err, st, out) ==
    [active |-> TRUE, doc |-> doc, facts |-> facts, file |-> file, order |-> order,
     reached |-> reached, err |-> err, panicked |-> st.panicked,
     findings |-> st.findings, evaluated |-> st.evaluated, out |-> out]

validateOpenAPIWithRules(doc, kind, facts, file, order) ==
    LET rd == readFile(kind)
        st0 == [findings |-> <<>>, evaluated |-> <<>>, panicked |-> FALSE]
        st1 == [st0 EXCEPT !.findings = GetValidationErrors(facts)]
        lr == loadRules(file)
        st2 == IF lr.hasRules THEN RuleLoop(facts, lr.rules, order, 1, st1) ELSE st1
        rep == Report(doc, st2.findings)
    IN  IF rd.err # Nil THEN FrameOf(doc, facts, file, order, "read", rd.err, st0, <<>>)
        ELSE IF unmarshalDoc(rd.data) # Nil
        THEN FrameOf(doc, facts, file, order, "parse", ErrUnmarshal, st0, <<>>)
        ELSE IF ~lr.ok THEN FrameOf(doc, facts, file, order, "rules", lr.err, st1, <<>>)
        ELSE IF st2.panicked THEN FrameOf(doc, facts, file, order, "loop", Panic, st2, <<>>)
        ELSE FrameOf(doc, facts, file, order, "report", rep.err, st2, rep.out)

-----------------------------------------------------------------------------
(* Reference resolution: resolveOpenAPI (same text in both programs) *)

\* What the rolodex and the serializer hand back in one resolveOpenAPI call:
\*   indexErr   rolodex.IndexTheRolodex() returned an error
\*   caught     rolodex.Resolve() met a reference it could not expand (it
\*              returns nothing; the errors stay inside the rolodex)
\*   marshalErr yaml.Marshal failed
\*   writeErr   ioutil.WriteFile failed
RolodexOutcomes ==
    [indexErr : BOOLEAN, caught : BOOLEAN, marshalErr : BOOLEAN, writeErr : BOOLEAN]
NoOutcome == [indexErr |-> FALSE, caught |-> FALSE, marshalErr |-> FALSE, writeErr |-> FALSE]

\* Variant of resolveOpenAPI: the result of ioutil.WriteFile is not checked.
resolveOpenAPIUncheckedWrite(doc, kind, rol, outFile) ==
    LET rd == readFile(kind)
        res(err, resolved, wrote) ==
            [err |-> err, resolved |-> resolved, caught |-> resolved /\ rol.caught,
             wrote |-> wrote,
             out |-> IF err = Nil THEN <<Line("saved", outFile, Nil)>> ELSE <<>>]
    IN  IF rd.err # Nil THEN res(rd.err, FALSE, FALSE)
        ELSE IF unmarshalDoc(rd.data) # Nil THEN res(ErrUnmarshal, FALSE, FALSE)
        ELSE IF rol.indexErr THEN res(ErrIndex, FALSE, FALSE)
        ELSE IF rol.marshalErr THEN res(ErrMarshal, TRUE, FALSE)
        ELSE res(Nil, TRUE, ~rol.writeErr)

\* resolveOpenAPI(inputFile, outputFile).  `resolved` says rolodex.Resolve()
\* ran, `caught` that it ran and left errors behind, `wrote` that the output
\* file was written.
resolveOpenAPI(doc, kind, rol, outFile) ==
    LET rd == readFile(kind)
        res(err, resolved, wrote) ==
            [err |-> err, resolved |-> resolved, caught |-> resolved /\ rol.caught,
             wrote |-> wrote,
             out |-> IF wrote THEN <<Line("saved", outFile, Nil)>> ELSE <<>>]
    IN  IF rd.err # Nil THEN res(rd.err, FALSE, FALSE)
        ELSE IF unmarshalDoc(rd.data) # Nil THEN res(ErrUnmarshal, FALSE, FALSE)
        ELSE IF rol.indexErr THEN res(ErrIndex, FALSE, FALSE)
        ELSE IF rol.marshalErr THEN res(ErrMarshal, TRUE, FALSE)
        ELSE IF rol.writeErr THEN res(ErrWrite, TRUE, FALSE)
        ELSE res(Nil, TRUE, TRUE)

-----------------------------------------------------------------------------
(* main *)

\* Variant of RequiredArgs: the full pipeline checks for one argument less.
RequiredArgsOffByOne(p) == IF p = "full" THEN NArgsFull - 1 ELSE NArgsResolve

\* The `len(os.Args) < n` guard of each main.
RequiredArgs(p) == IF p = "full" THEN NArgsFull ELSE NArgsResolve

\* Variant of NextStage: each document is validated and resolved in turn.
NextStageInterleaved(stage) ==
    CASE stage = "ValidateOld" -> "ResolveOld"
      [] stage = "ResolveOld" -> "ValidateNew"
      [] stage = "ValidateNew" -> "ResolveNew"
      [] stage = "ResolveNew" -> "Done"

\* The order of the calls in main.
FirstStage(p) == IF p = "full" THEN "ValidateOld" ELSE "ResolveOld"
NextStage(stage) ==
    CASE stage = "ValidateOld" -> "ValidateNew"
      [] stage = "ValidateNew" -> "ResolveOld"
      [] stage = "ResolveOld" -> "ResolveNew"
      [] stage = "ResolveNew" -> "Done"

OutFile(doc) == IF doc = "old" THEN OutOld ELSE OutNew

\* Variant of MainAfterValidate: no os.Exit(1) after a failed validation.
MainAfterValidateNoExit(stage, doc, fr) ==
    IF fr.panicked THEN [pc |-> "Panicked", exitCode |-> 2, out |-> <<>>]
    ELSE IF fr.err # Nil
    THEN [pc |-> IF stage = "ValidateOld" THEN "ValidateNew" ELSE "ResolveOld",
          exitCode |-> NotExited, out |-> <<Line("invalid", doc, Nil)>>]
    ELSE [pc |-> IF stage = "ValidateOld" THEN "ValidateNew" ELSE "ResolveOld",
          exitCode |-> NotExited, out |-> <<>>]

\* What main does with the value validateOpenAPIWithRules returned: the full
\* pipeline prints the file name only and exits 1.  A panic ends the process
\* with exit code 2 (the Go runtime's report goes to stderr).
MainAfterValidate(stage, doc, fr) ==
    IF fr.panicked THEN [pc |-> "Panicked", exitCode |-> 2, out |-> <<>>]
    ELSE IF fr.err # Nil
    THEN [pc |-> "Failed", exitCode |-> 1, out |-> <<Line("invalid", doc, Nil)>>]
    ELSE [pc |-> NextStage(stage), exitCode |-> NotExited, out |-> <<>>]

\* What main does with the value resolveOpenAPI returned: it prints the error
\* and exits 1, or goes on; after the last stage it prints the success line.
MainAfterResolve(stage, doc, r) ==
    IF r.err # Nil
    THEN [pc |-> "Failed", exitCode |-> 1, out |-> <<Line("procErr", doc, r.err)>>]
    ELSE IF NextStage(stage) = "Done"
    THEN [pc |-> "Done", exitCode |-> 0, out |-> <<Line("success", "", Nil)>>]
    ELSE [pc |-> NextStage(stage), exitCode |-> NotExited, out |-> <<>>]

UnreadFile == [kind |-> "unread", hasRules |-> FALSE, rules |-> <<>>]
NoFacts == [structural |-> 0, sec |-> FALSE, contact |-> FALSE, urls |-> <<>>]

\* The index getters are called from inside the `if given == ...` of a rule:
\* a fact no rule of the file asks for is never read and keeps its NoFacts
\* value.  idx.GetValidationErrors() is always called.
Asks(file, given) ==
    /\ file.hasRules
    /\ \E n \in 1..Len(file.rules) :
           file.rules[n].given = given /\ file.rules[n].severity # Missing
FactsAsked(file) ==
    {f \in IndexFacts :
        /\ Asks(file, GivenSecurity) \/ f.sec = NoFacts.sec
        /\ Asks(file, GivenContact) \/ f.contact = NoFacts.contact
        /\ Asks(file, GivenServers) \/ f.urls = NoFacts.urls}

\* The input files are what the run finds the first time it reads them, and
\* stay so for the rest of the run.
KindsOf(doc) == IF fs[doc] = Unread THEN FileKinds ELSE {fs[doc]}
RuleFilesOf == IF fs.rules = UnreadFile THEN RuleFiles ELSE {fs.rules}

Init ==
    /\ pipeline \in Pipelines
    /\ nargs \in 0..NArgsFull
    /\ pc = "Start"
    /\ fs = [old |-> Unread, new |-> Unread, rules |-> UnreadFile]
    /\ frame = NoFrame
    /\ rolodex = [d \in DocNames |-> "notrun"]
    /\ trace = <<>>
    /\ stdout = <<>>
    /\ written = <<>>
    /\ exitCode = NotExited

\* main, up to the first call: the argument check.
Start ==
    /\ pc = "Start"
    /\ IF nargs < RequiredArgs(pipeline)
       THEN /\ stdout' = Append(stdout, Line("usage", "", Nil))
            /\ pc' = "Usage"
            /\ exitCode' = 0
       ELSE /\ pc' = FirstStage(pipeline)
            /\ UNCHANGED <<stdout, exitCode>>
    /\ UNCHANGED <<pipeline, nargs, fs, frame, rolodex, trace, written>>

\* The call validateOpenAPIWithRules(file, rulesFile) runs to its end (return
\* or panic).  The index exists once the document parsed, the rule file is
\* read once loadRules is reached, the iteration order is the map's.
ValidateCall(stage, doc) ==
    /\ pc = stage
    /\ ~frame.active
    /\ \E kind \in KindsOf(doc) :
       \E file \in (IF kind = "ok" THEN RuleFilesOf ELSE {UnreadFile}) :
       \E facts \in (IF kind = "ok" THEN FactsAsked(file) ELSE {NoFacts}) :
       \E order \in Orders(IF file.hasRules THEN Len(file.rules) ELSE 0) :
          LET fr == validateOpenAPIWithRules(doc, kind, facts, file, order)
          IN  /\ frame' = fr
              /\ fs' = [fs EXCEPT ![doc] = kind,
                                  !.rules = IF kind = "ok" THEN file ELSE @]
              /\ stdout' = stdout \o fr.out
    /\ UNCHANGED <<pipeline, nargs, pc, rolodex, trace, written, exitCode>>

\* main takes the result of the call.
ValidateReturn(stage, doc) ==
    /\ pc = stage
    /\ frame.active
    /\ LET m == MainAfterValidate(stage, doc, frame)
       IN  /\ pc' = m.pc
           /\ exitCode' = m.exitCode
           /\ stdout' = stdout \o m.out
    /\ trace' = Append(trace, [stage |-> stage, doc |-> doc, err |-> frame.err])
    /\ frame' = NoFrame
    /\ UNCHANGED <<pipeline, nargs, fs, rolodex, written>>

\* One resolve stage of main: resolveOpenAPI(file, outFile) and what main
\* does with its result.
Resolve(stage, doc) ==
    /\ pc = stage
    /\ \E kind \in KindsOf(doc) :
       \E rol \in (IF kind = "ok" THEN RolodexOutcomes ELSE {NoOutcome}) :
          LET r == resolveOpenAPI(doc, kind, rol, OutFile(doc))
              m == MainAfterResolve(stage, doc, r)
          IN  /\ fs' = [fs EXCEPT ![doc] = kind]
              /\ rolodex' = [rolodex EXCEPT ![doc] =
                               IF ~r.resolved THEN "notresolved"
                               ELSE IF r.caught THEN "errors" ELSE "clean"]
              /\ written' = IF r.wrote THEN Append(written, OutFile(doc)) ELSE written
              /\ stdout' = stdout \o r.out \o m.out
              /\ trace' = Append(trace, [stage |-> stage, doc |-> doc, err |-> r.err])
              /\ pc' = m.pc
              /\ exitCode' = m.exitCode
    /\ UNCHANGED <<pipeline, nargs, frame>>

ValidateOldCall == ValidateCall("ValidateOld", "old")
ValidateOldReturn == ValidateReturn("ValidateOld", "old")
ValidateNewCall == ValidateCall("ValidateNew", "new")
ValidateNewReturn == ValidateReturn("ValidateNew", "new")
ResolveOld == Resolve("ResolveOld", "old")
ResolveNew == Resolve("ResolveNew", "new")

Next ==
    \/ Start
    \/ ValidateOldCall
    \/ ValidateOldReturn
    \/ ValidateNewCall
    \/ ValidateNewReturn
    \/ ResolveOld
    \/ ResolveNew

Spec == Init /\ [][Next]_vars

-----------------------------------------------------------------------------
(* Vocabulary of the properties *)

Executed(stage) == \E i \in 1..Len(trace) : trace[i].stage = stage
FailedStage(stage) == \E i \in 1..Len(trace) : trace[i].stage = stage /\ trace[i].err # Nil
\* validateOpenAPIWithRules has been called for `doc` (returned or not).
ValidateInvoked(stage, doc) == Executed(stage) \/ (frame.active /\ frame.doc = doc)
Stages == [i \in 1..Len(trace) |-> trace[i].stage]

\* A rule with both required fields, each a string.
CompleteRule(body) == body.given # Missing /\ body.severity # Missing

\* The call got a parsed document and a parsed rule file whose rules are all
\* complete: the inputs the rule engine is specified for.
EngineRan ==
    /\ frame.active
    /\ fs[frame.doc] = "ok"
    /\ frame.file.kind = "parsed"
    /\ \A n \in 1..Len(frame.file.rules) : CompleteRule(frame.file.rules[n])

\* The call got a parsed document and a rule file with an incomplete rule.
IncompleteRuleFile ==
    /\ frame.active
    /\ fs[frame.doc] = "ok"
    /\ frame.file.kind = "parsed"
    /\ frame.file.hasRules
    /\ \E n \in 1..Len(frame.file.rules) : ~CompleteRule(frame.file.rules[n])

RuleFindingIdx == {i \in 1..Len(frame.findings) : frame.findings[i].src = "rule"}
FindingsOfRule(n) == {i \in RuleFindingIdx : frame.findings[i].rule = n}

\* The scheme of a URL: the text before the first "://" (none: empty).
SchemeEnds(url) == {i \in 1..Len(url) : HasPrefix(SubSeq(url, i, Len(url)), <<":", "/", "/">>)}
SchemeOf(url) ==
    IF SchemeEnds(url) = {} THEN <<>>
    ELSE SubSeq(url, 1, (CHOOSE i \in SchemeEnds(url) : \A j \in SchemeEnds(url) : i <= j) - 1)
NonHttps(urls) == {i \in 1..Len(urls) : SchemeOf(urls[i]) # <<"h", "t", "t", "p", "s">>}

\* Findings a rule must contribute, by its selector alone.
ExpectedCount(given, facts) ==
    CASE given = GivenSecurity -> IF facts.sec THEN 0 ELSE 1
      [] given = GivenContact -> IF facts.contact THEN 0 ELSE 1
      [] given = GivenServers -> Cardinality(NonHttps(facts.urls))
      [] OTHER -> 0

\* Position of rule n in the iteration order of the call.
OrderPos(n) == CHOOSE k \in 1..Len(frame.order) : frame.order[k] = n

LowerLayerErrors ==
    {ErrReadFile, ErrEncoding, ErrUnmarshal, ErrReadRules, ErrUnmarshalRules,
     ErrIndex, ErrMarshal, ErrWrite}

-----------------------------------------------------------------------------
(* Properties *)

\* C1: when validation of the old document fails, validation of the new
\* document is never invoked, nothing about the new document is printed, no
\* resolve stage runs, no output file is written and the exit code is not 0.
C1_FailFastOld ==
    FailedStage("ValidateOld") =>
        /\ Len(trace) = 1
        /\ ~ValidateInvoked("ValidateNew", "new")
        /\ ~Executed("ResolveOld") /\ ~Executed("ResolveNew")
        /\ \A d \in DocNames : rolodex[d] = "notrun"
        /\ \A i \in 1..Len(stdout) : stdout[i].doc \notin {"new", OutOld, OutNew}
        /\ written = <<>>
        /\ pc \in {"Failed", "Panicked"}
        /\ exitCode \in {1, 2}

\* C1 witness: the old document produced findings and the run has ended.
C1_Witness ==
    /\ pc = "Failed"
    /\ Len(trace) = 1
    /\ trace[1] = [stage |-> "ValidateOld", doc |-> "old", err |-> ErrValidation]

\* C2 (as claimed): whenever rolodex.Resolve() could not expand a reference of
\* a document, resolveOpenAPI returns an error for it, the run fails with a
\* non-zero exit code, never reaches Done and prints no success for it.
C2_ResolutionErrorFails ==
    \A d \in DocNames :
        rolodex[d] = "errors" =>
            /\ \E i \in 1..Len(trace) : trace[i].doc = d /\ trace[i].err # Nil
            /\ pc = "Failed"
            /\ exitCode = 1
            /\ \A i \in 1..Len(stdout) :
                   ~(stdout[i].kind = "saved" /\ stdout[i].doc = OutFile(d))

\* C3: for a parsed document and a complete rule set, the call returns an
\* error exactly when the aggregated findings are non-empty, whatever the
\* severities of the findings.
C3_FailsIffFindings ==
    EngineRan =>
        /\ ~frame.panicked
        /\ frame.reached = "report"
        /\ (frame.err # Nil) <=> (Len(frame.findings) > 0)
        /\ frame.err \in {Nil, ErrValidation}

\* C3 witness: only findings of severity warning/info, and the call failed.
C3_Witness ==
    /\ EngineRan
    /\ Len(frame.findings) > 0
    /\ \A i \in 1..Len(frame.findings) : frame.findings[i].severity \in {"warning", "info"}
    /\ frame.err = ErrValidation

\* The indexer's findings come first, in the indexer's order.
IndexerFirst ==
    /\ Len(frame.findings) >= frame.facts.structural
    /\ \A i \in 1..Len(frame.findings) :
           IF i <= frame.facts.structural
           THEN frame.findings[i] = IndexerFinding(i)
           ELSE frame.findings[i].src = "rule"

\* Findings of one rule are in server-list order.
ServerListOrder ==
    \A i, j \in RuleFindingIdx :
        (i < j /\ frame.findings[i].rule = frame.findings[j].rule)
            => frame.findings[i].pos < frame.findings[j].pos

\* The printed lines are the findings, in the same order.
PrintedInOrder ==
    /\ Len(frame.out) = Len(frame.findings)
    /\ \A i \in 1..Len(frame.findings) :
           /\ frame.out[i].kind = "finding"
           /\ frame.out[i].severity = frame.findings[i].severity
           /\ frame.out[i].description = frame.findings[i].description

\* C4 (as claimed): indexer findings first, then the rule findings in the
\* order of the rules in the rule file, per-URL findings in server-list order.
C4_RuleFileOrder ==
    (EngineRan /\ Len(frame.findings) > 0) =>
        /\ IndexerFirst
        /\ ServerListOrder
        /\ \A i, j \in RuleFindingIdx :
               i < j => frame.findings[i].rule <= frame.findings[j].rule

\* C4 (amended): indexer findings first, then the rule findings grouped by
\* rule in the order in which the rules map was iterated in this call (any
\* order of the rules), per-URL findings in server-list order; the findings
\* are printed in that order.
C4_IterationOrder ==
    (EngineRan /\ Len(frame.findings) > 0) =>
        /\ IndexerFirst
        /\ ServerListOrder
        /\ PrintedInOrder
        /\ \A i, j \in RuleFindingIdx :
               i < j => OrderPos(frame.findings[i].rule) <= OrderPos(frame.findings[j].rule)

\* C4 witness: two rules with findings, iterated against the file order, one
\* of them with two per-URL findings, after an indexer finding.
C4_Witness ==
    /\ EngineRan
    /\ frame.facts.structural > 0
    /\ Len(frame.file.rules) = 2
    /\ frame.order = <<2, 1>>
    /\ FindingsOfRule(1) # {}
    /\ Cardinality(FindingsOfRule(2)) = 2

\* C5 (as claimed): a rule file with a rule lacking `given` or `severity`
\* makes loading fail with an error value; no rule is evaluated and no
\* rule finding is appended.
C5_IncompleteRejected ==
    IncompleteRuleFile =>
        /\ ~frame.panicked
        /\ frame.reached = "rules"
        /\ frame.err \in {ErrReadRules, ErrUnmarshalRules}
        /\ frame.evaluated = <<>>
        /\ RuleFindingIdx = {}

\* C6: every evaluated rule contributes the number of findings its selector
\* fixes (0 or 1 for security schemes and contact, one per non-https URL for
\* servers, 0 for any other selector); with a complete rule set every rule is
\* evaluated and nothing fails.
C6_PerRuleCount ==
    (frame.active /\ fs[frame.doc] = "ok" /\ frame.file.kind = "parsed") =>
        /\ \A k \in 1..Len(frame.evaluated) :
               LET n == frame.evaluated[k]
               IN  Cardinality(FindingsOfRule(n))
                       = ExpectedCount(frame.file.rules[n].given, frame.facts)
        /\ \A i \in RuleFindingIdx :
               \E k \in 1..Len(frame.evaluated) : frame.evaluated[k] = frame.findings[i].rule
        /\ EngineRan =>
               /\ ~frame.panicked
               /\ Len(frame.evaluated) = Len(frame.file.rules)
               /\ frame.err \in {Nil, ErrValidation}

\* C6 witness: the three built-in rules on a document with no security
\* schemes, no contact and the single server URL http://a: 3 findings.
C6_Witness ==
    /\ EngineRan
    /\ frame.file.rules = BuiltinRules
    /\ frame.facts = [structural |-> 0, sec |-> FALSE, contact |-> FALSE, urls |-> <<UrlHttp>>]
    /\ Len(frame.findings) = 3
    /\ \A n \in 1..3 : Cardinality(FindingsOfRule(n)) = 1

\* C7 (as claimed): when a stage fails on a lower-layer error, the output
\* printed before the exit contains that error's own text.
C7_ReasonPrinted ==
    (pc = "Failed" /\ trace[Len(trace)].err \in LowerLayerErrors) =>
        \E i \in 1..Len(stdout) : stdout[i].reason = trace[Len(trace)].err

\* C8: Done (success line printed, exit code 0) is reached only after every
\* stage ran once, in order, each returning nil, and then exactly the two
\* output files have been written, the old one first.
C8_DoneImpliesBothOutputs ==
    /\ pc = "Done" =>
        /\ exitCode = 0
        /\ Stages = IF pipeline = "full"
                    THEN <<"ValidateOld", "ValidateNew", "ResolveOld", "ResolveNew">>
                    ELSE <<"ResolveOld", "ResolveNew">>
        /\ \A i \in 1..Len(trace) : trace[i].err = Nil
        /\ written = <<OutOld, OutNew>>
        /\ stdout[Len(stdout)].kind = "success"
    /\ (\E i \in 1..Len(stdout) : stdout[i].kind = "success") => pc = "Done"
    /\ (exitCode = 0 /\ pc # "Usage") => pc = "Done"

\* C8 witness: the full pipeline ended in Done.
C8_Witness == pc = "Done" /\ pipeline = "full" /\ Len(written) = 2

\* C9 (as claimed): in every run in which validation or resolution of the old
\* document fails, the new document has not been validated (the old document
\* is processed fully before the new one is looked at).
C9_OldFullyFirst ==
    (FailedStage("ValidateOld") \/ FailedStage("ResolveOld"))
        => ~ValidateInvoked("ValidateNew", "new")

\* C9 (amended): if validation of the old document fails, the new document
\* is not validated; both documents are validated, old then new, before
\* either is resolved, so a failed resolution of the old document comes after
\* a successful validation of the new one and is followed by no other stage.
C9_ValidateBothThenResolve ==
    /\ FailedStage("ValidateOld") => ~ValidateInvoked("ValidateNew", "new")
    /\ (pipeline = "full" /\ Executed("ResolveOld")) =>
           /\ Len(trace) >= 3
           /\ trace[1] = [stage |-> "ValidateOld", doc |-> "old", err |-> Nil]
           /\ trace[2] = [stage |-> "ValidateNew", doc |-> "new", err |-> Nil]
           /\ trace[3].stage = "ResolveOld"
    /\ FailedStage("ResolveOld") =>
           /\ trace[Len(trace)].stage = "ResolveOld"
           /\ ~Executed("ResolveNew")
           /\ pc = "Failed"

\* C9 witness: the full pipeline failed while resolving the old document.
C9_Witness == pipeline = "full" /\ FailedStage("ResolveOld")

\* C10: with fewer paths than required (3 for the full pipeline, 2 for the
\* resolve-only one) the program prints the usage line and ends with exit
\* code 0 without running a stage or writing a file; otherwise it prints no
\* usage line.
C10_UsageOnTooFewArgs ==
    LET paths == nargs - 1
        tooFew == IF pipeline = "full" THEN paths < 3 ELSE paths < 2
    IN  pc # "Start" =>
            IF tooFew
            THEN /\ pc = "Usage"
                 /\ exitCode = 0
                 /\ stdout = <<Line("usage", "", Nil)>>
                 /\ trace = <<>>
                 /\ ~frame.active
                 /\ written = <<>>
            ELSE pc # "Usage"

\* C10 witness: exit code 0 reached with no output file written.
C10_Witness == pc = "Usage" /\ exitCode = 0 /\ written = <<>> /\ pipeline = "full" /\ nargs = 3

====
